---- MODULE Spec2Model ----
(***************************************************************************)
(* GeckoDriverInstaller (src/web_scraping/gko_driver_installer.py).        *)
(*                                                                         *)
(* The state is the installer object's fields, the part of the filesystem  *)
(* the installer touches, the host OS identifier and the position of the   *)
(* single thread of control.  A caller invokes the public methods          *)
(* (install, download_geckodriver, extract_file, move_geckodriver,         *)
(* clean_up) one after the other; install() runs the other four in its     *)
(* try block and clean_up() again in its except block.                     *)
(*                                                                         *)
(* A path is a sequence of names and a name is the sequence of its         *)
(* dot-separated parts, so "geckodriver.tar.gz" is                         *)
(* <<"geckodriver","tar","gz">> and a suffix such as ".tar.gz" is the      *)
(* sequence <<"tar","gz">> of the parts that follow its dots.              *)
(***************************************************************************)
EXTENDS Integers, Sequences, FiniteSets, TLC

VARIABLES os, fs, download_url, download_path, extract_path,
          top, pc, exc, log, hist, fs0, netCalls, tmpMade

vars == <<os, fs, download_url, download_path, extract_path,
          top, pc, exc, log, hist, fs0, netCalls, tmpMade>>

(* ------------------------------ bounds --------------------------------- *)

\* number of method calls the caller makes on one installer object
MaxCalls == 3

(* ---------------------------- paths and names -------------------------- *)

\* the value None of an unset path field / of an unset string field
None == <<>>
NoUrl == "None"

\* Path.__truediv__ : path / name
Join(p, n) == Append(p, n)

GeckoName == <<"geckodriver">>
GeckoExeName == <<"geckodriver", "exe">>
DownloadedName == <<"geckodriver_downloaded">>

\* self.target_dir
TargetDir == << <<"target">> >>
\* self.target_dir / "geckodriver", the staging directory
Stage == Join(TargetDir, GeckoName)
\* the directory TemporaryDirectory() creates
TempDir == << <<"tmp">> >>
\* Path(temp_dir) / "geckodriver_downloaded"
TmpFile == Join(TempDir, DownloadedName)
\* a directory in which a caller keeps archives it hands to extract_file
DlDir == << <<"dl">> >>

UnitNames == { <<"geckodriver", "zip">>, <<"geckodriver", "tar", "gz">>,
               <<"geckodriver", "gz">>, DownloadedName }
UnitPaths == { Join(DlDir, n) : n \in UnitNames }

Paths == { TargetDir, Stage, Join(Stage, GeckoName), Join(Stage, GeckoExeName),
           Join(TargetDir, GeckoExeName),
           Join(Join(TargetDir, GeckoExeName), GeckoExeName),
           TempDir, TmpFile, DlDir } \cup UnitPaths

\* What a path names: nothing, a directory, or a regular file with a content.
\*   zipwin : zip archive holding geckodriver.exe   zipnix : zip holding geckodriver
\*   targz  : gzip-tar archive holding geckodriver  junk   : no archive at all
\*   driver : a driver binary taken out of an archive
\*   old    : a file that was there before the installer ran
FileKinds == {"zipwin", "zipnix", "targz", "junk", "driver", "old"}
Kinds == {"none", "dir"} \cup FileKinds

IsPrefix(p, q) == Len(p) <= Len(q) /\ SubSeq(q, 1, Len(p)) = p

\* Path.exists()
Exists(f, p) == f[p] # "none"

\* PurePath.name and PurePath.suffix: the suffix is the text from the last dot
\* of the name on, or empty when the name has no dot, starts at its only dot
\* or ends with a dot.
Name(p) == p[Len(p)]
Suffix(p) ==
  LET n == Name(p) IN
  IF Len(n) >= 2 /\ n[Len(n)] # "" /\ (Len(n) > 2 \/ n[1] # "")
    THEN << n[Len(n)] >>
    ELSE << >>

ZipSuffix == <<"zip">>
TarGzSuffix == <<"tar", "gz">>

\* name.endswith(".zip"), name.endswith(".tar.gz")
EndsWith(p, suf) ==
  LET n == Name(p) IN
  Len(n) > Len(suf) /\ SubSeq(n, Len(n) - Len(suf) + 1, Len(n)) = suf

\* Removal of a path and of everything below it: Path.unlink on a file,
\* shutil.rmtree on a directory, TemporaryDirectory's cleanup.
RemoveNothing(f, p) == f
Remove(f, p) == [q \in Paths |-> IF IsPrefix(p, q) THEN "none" ELSE f[q]]

\* TemporaryDirectory.__exit__: the directory and its content are removed
TempKept(f) == f
TempCleanup(f) == Remove(f, TempDir)

(* ------------------------------ the host ------------------------------- *)

\* platform.system().lower()
OSIds == {"windows", "darwin", "linux", "freebsd", "java"}

WinUrl == "geckodriver-v0.31.0-win64.zip"
MacUrl == "geckodriver-v0.31.0-macos.tar.gz"
LinuxUrl == "geckodriver-v0.31.0-linux64.tar.gz"

\* get_download_url: the URL for the host, or OSError
UrlAlwaysLinux(sys) ==
  IF sys = "windows" THEN [url |-> WinUrl, exc |-> "none"]
  ELSE IF sys = "darwin" THEN [url |-> MacUrl, exc |-> "none"]
  ELSE [url |-> LinuxUrl, exc |-> "none"]
get_download_url(sys) ==
  IF sys = "windows" THEN [url |-> WinUrl, exc |-> "none"]
  ELSE IF sys = "darwin" THEN [url |-> MacUrl, exc |-> "none"]
  ELSE IF sys = "linux" THEN [url |-> LinuxUrl, exc |-> "none"]
  ELSE [url |-> NoUrl, exc |-> "OSError"]

\* what the release URL serves
ArchiveAt(url) == IF url = WinUrl THEN "zipwin" ELSE "targz"

(* -------------------------- the methods' bodies ------------------------ *)

\* The member an archive holds.
Member(kind) == IF kind = "zipwin" THEN GeckoExeName ELSE GeckoName

\* extractall(extract_path) of a readable archive: the staging directory is
\* created if it is missing and the member is written into it; a regular file
\* in the place of the staging directory makes the write fail.
ExtractAll(f, kind, sys) ==
  IF f[Stage] \in FileKinds
    THEN [fs |-> f, exc |-> IF sys = "windows" THEN "FileNotFoundError"
                                                ELSE "NotADirectoryError"]
    ELSE [fs |-> [f EXCEPT ![Stage] = "dir", ![Join(Stage, Member(kind))] = "driver"],
          exc |-> "none"]

\* Opening the archive at dp for reading: zipfile.ZipFile(dp, 'r') with
\* valid = the zip kinds, tarfile.open(dp, 'r:gz') with valid = {"targz"}.
OpenArchive(f, dp, valid, bad, sys) ==
  IF f[dp] = "none" THEN "FileNotFoundError"
  ELSE IF f[dp] = "dir" THEN (IF sys = "windows" THEN "PermissionError"
                                                 ELSE "IsADirectoryError")
  ELSE IF f[dp] \notin valid THEN bad
  ELSE "none"

ExtractBranch(f, dp, ep, valid, bad, sys) ==
  LET o == OpenArchive(f, dp, valid, bad, sys) IN
  IF o # "none" THEN [fs |-> f, ep |-> ep, exc |-> o]
  ELSE LET x == ExtractAll(f, f[dp], sys) IN
       [fs |-> x.fs, ep |-> Stage, exc |-> x.exc]

\* extract_file
extract_file(f, dp, ep, sys) ==
  IF dp = None THEN [fs |-> f, ep |-> ep, exc |-> "AttributeError"]
  ELSE IF Suffix(dp) = ZipSuffix
    THEN ExtractBranch(f, dp, ep, {"zipwin", "zipnix"}, "BadZipFile", sys)
  ELSE IF Suffix(dp) = TarGzSuffix
    THEN ExtractBranch(f, dp, ep, {"targz"}, "ReadError", sys)
  ELSE [fs |-> f, ep |-> ep, exc |-> "ValueError"]

\* which branch of extract_file a download_path selects
Branch(dp) ==
  IF dp = None THEN "error"
  ELSE IF Suffix(dp) = ZipSuffix THEN "zip"
  ELSE IF Suffix(dp) = TarGzSuffix THEN "targz"
  ELSE "unsupported"

\* geckodriver_filename
DriverName(sys) == IF sys # "windows" THEN GeckoName ELSE GeckoExeName

\* shutil.move(src, dst) of a regular file: into dst when dst is a directory
\* (an error when the name is taken there), onto dst otherwise.
ShutilMove(f, src, dst) ==
  LET real == IF f[dst] = "dir" THEN Join(dst, Name(src)) ELSE dst IN
  IF f[dst] = "dir" /\ Exists(f, real)
    THEN [fs |-> f, exc |-> "ShutilError"]
    ELSE [fs |-> [f EXCEPT ![real] = f[src], ![src] = "none"], exc |-> "none"]

\* move_geckodriver
MoveKeepsNothing(f, ep, sys) ==
  IF ep = None THEN [fs |-> f, exc |-> "TypeError"]
  ELSE LET src == Join(ep, DriverName(sys)) IN
       IF ~Exists(f, src) THEN [fs |-> f, exc |-> "FileNotFoundError"]
       ELSE [fs |-> f, exc |-> "none"]
move_geckodriver(f, ep, sys) ==
  IF ep = None THEN [fs |-> f, exc |-> "TypeError"]
  ELSE LET src == Join(ep, DriverName(sys)) IN
       IF ~Exists(f, src) THEN [fs |-> f, exc |-> "FileNotFoundError"]
       ELSE ShutilMove(f, src, Join(TargetDir, DriverName(sys)))

\* Path.unlink: a directory cannot be unlinked
Unlink(f, p, sys) ==
  IF f[p] = "dir"
    THEN [fs |-> f, exc |-> IF sys = "windows" THEN "PermissionError"
                                                ELSE "IsADirectoryError"]
    ELSE [fs |-> Remove(f, p), exc |-> "none"]

\* shutil.rmtree: a regular file is no tree
RmTree(f, p) ==
  IF f[p] \in FileKinds THEN [fs |-> f, exc |-> "NotADirectoryError"]
  ELSE [fs |-> Remove(f, p), exc |-> "none"]

\* clean_up
CleanUpUnchecked(f, dp, ep, sys) ==
  LET a == IF dp # None
             THEN (IF Exists(f, dp) THEN Unlink(f, dp, sys)
                                    ELSE [fs |-> f, exc |-> "FileNotFoundError"])
             ELSE [fs |-> f, exc |-> "none"] IN
  IF a.exc # "none" THEN a
  ELSE IF ep # None /\ Exists(a.fs, ep) THEN RmTree(a.fs, ep)
  ELSE a
clean_up(f, dp, ep, sys) ==
  LET a == IF dp # None /\ Exists(f, dp) THEN Unlink(f, dp, sys)
                                         ELSE [fs |-> f, exc |-> "none"] IN
  IF a.exc # "none" THEN a
  ELSE IF ep # None /\ Exists(a.fs, ep) THEN RmTree(a.fs, ep)
  ELSE a

(* ------------------------------ install() ------------------------------ *)

\* the classes "except Exception" catches: every exception the steps raise
ExceptionClasses == {"OSError", "RuntimeError", "ValueError", "AttributeError",
                     "TypeError", "FileNotFoundError", "PermissionError",
                     "IsADirectoryError", "NotADirectoryError", "BadZipFile",
                     "ReadError", "ShutilError"}
CatchesRuntimeErrorOnly(e) == e = "RuntimeError"
Catches(e) == e \in ExceptionClasses

Methods == {"install", "download_geckodriver", "extract_file",
            "move_geckodriver", "clean_up"}

\* where a method starts
Entry(m) ==
  CASE m = "install" -> "resolve"
    [] m = "download_geckodriver" -> "resolve"
    [] m = "extract_file" -> "extract"
    [] m = "move_geckodriver" -> "move"
    [] m = "clean_up" -> "cleanup"

\* the statement of install()'s try block that follows a step
AfterSkipsExtract(step) ==
  CASE step = "download_geckodriver" -> "move"
    [] step = "extract_file" -> "move"
    [] step = "move_geckodriver" -> "cleanup"
    [] step = "clean_up" -> "idle"
After(step) ==
  CASE step = "download_geckodriver" -> "extract"
    [] step = "extract_file" -> "move"
    [] step = "move_geckodriver" -> "cleanup"
    [] step = "clean_up" -> "idle"

Outcome(e) == IF e = "none" THEN "returned" ELSE e

\* Control after `step` ended with e ("none": it returned).  Called directly,
\* the method's outcome is the caller's.  Inside install()'s try block a
\* return moves to the next statement (after clean_up: the success message and
\* the return), a caught exception moves to the except block, which prints it.
Finish(step, e) ==
  LET lg == Append(log, <<step, Outcome(e)>>) IN
  IF top # "install"
    THEN [top |-> "none", pc |-> "idle", log |-> lg,
          hist |-> Append(hist, <<top, Outcome(e)>>)]
  ELSE IF e = "none"
    THEN IF step = "clean_up"
           THEN [top |-> "none", pc |-> "idle",
                 log |-> Append(lg, <<"print", "success">>),
                 hist |-> Append(hist, <<"install", "returned">>)]
           ELSE [top |-> "install", pc |-> After(step), log |-> lg, hist |-> hist]
  ELSE IF Catches(e)
    THEN [top |-> "install", pc |-> "handler",
          log |-> Append(lg, <<"print", "error">>), hist |-> hist]
  ELSE [top |-> "none", pc |-> "idle", log |-> lg,
        hist |-> Append(hist, <<"install", e>>)]

Control(c) ==
  /\ top' = c.top
  /\ pc' = c.pc
  /\ log' = c.log
  /\ hist' = c.hist

(* ------------------------------- Init ---------------------------------- *)

\* What the target directory holds before the installer runs: nothing, or
\* what earlier runs and earlier installations left behind.
StageStates == { [s |-> "none", e |-> "none", b |-> "none"],
                 [s |-> "old", e |-> "none", b |-> "none"],
                 [s |-> "dir", e |-> "none", b |-> "none"],
                 [s |-> "dir", e |-> "driver", b |-> "none"],
                 [s |-> "dir", e |-> "none", b |-> "driver"],
                 [s |-> "dir", e |-> "driver", b |-> "driver"] }

InitFS(st, te) ==
  [p \in Paths |->
     IF p = TargetDir THEN "dir"
     ELSE IF p = Stage THEN st.s
     ELSE IF p = Join(Stage, GeckoExeName) THEN st.e
     ELSE IF p = Join(Stage, GeckoName) THEN st.b
     ELSE IF p = Join(TargetDir, GeckoExeName) THEN te
     ELSE "none"]

InitControl ==
  /\ top = "none"
  /\ pc = "idle"
  /\ exc = "none"
  /\ log = << >>
  /\ hist = << >>
  /\ fs0 = fs
  /\ netCalls = 0
  /\ tmpMade = 0

\* __init__: the fields are unset
Init ==
  /\ os \in OSIds
  /\ \E st \in StageStates, te \in {"none", "old"} : fs = InitFS(st, te)
  /\ download_url = NoUrl
  /\ download_path = None
  /\ extract_path = None
  /\ InitControl

\* An installer whose download_path and extract_path a caller has set, with an
\* archive (or none) at download_path.
InitUnit ==
  /\ os \in OSIds
  /\ download_url = NoUrl
  /\ download_path \in UnitPaths \cup {None}
  /\ extract_path \in {None, Stage}
  /\ \E st \in StageStates, te \in {"none", "old"},
        k \in {"none", "zipwin", "targz", "junk"} :
        fs = [InitFS(st, te) EXCEPT
                ![DlDir] = "dir",
                ![IF download_path = None THEN DlDir ELSE download_path] =
                   IF download_path = None THEN "dir" ELSE k]
  /\ InitControl

(* ------------------------------ actions -------------------------------- *)

\* the caller invokes a method
Call(m) ==
  /\ top = "none"
  /\ Len(hist) < MaxCalls
  /\ top' = m
  /\ pc' = Entry(m)
  /\ log' = << >>
  /\ fs0' = fs
  /\ exc' = "none"
  /\ UNCHANGED <<os, fs, download_url, download_path, extract_path, hist,
                 netCalls, tmpMade>>

\* download_geckodriver: self.get_download_url()
GetDownloadUrl ==
  /\ pc = "resolve"
  /\ LET r == get_download_url(os) IN
     IF r.exc = "none"
       THEN /\ download_url' = r.url
            /\ pc' = "mktemp"
            /\ UNCHANGED <<top, log, hist>>
       ELSE /\ Control(Finish("download_geckodriver", r.exc))
            /\ UNCHANGED download_url
  /\ UNCHANGED <<os, fs, download_path, extract_path, exc, fs0, netCalls, tmpMade>>

\* download_geckodriver: with TemporaryDirectory() as temp_dir, and the
\* assignment of download_path
EnterTemp ==
  /\ pc = "mktemp"
  /\ fs' = [fs EXCEPT ![TempDir] = "dir"]
  /\ download_path' = TmpFile
  /\ tmpMade' = tmpMade + 1
  /\ pc' = "fetch"
  /\ UNCHANGED <<os, download_url, extract_path, top, exc, log, hist, fs0, netCalls>>

\* download_geckodriver: urlretrieve, which writes the file (the release
\* archive, or whatever else the server answered) or fails, leaving nothing or
\* a partial file; a failure is re-raised as RuntimeError
Retrieve ==
  /\ pc = "fetch"
  /\ netCalls' = netCalls + 1
  /\ \E k \in {ArchiveAt(download_url), "junk", "fail", "partial"} :
       /\ fs' = [fs EXCEPT ![download_path] =
                   IF k = "fail" THEN "none" ELSE IF k = "partial" THEN "junk" ELSE k]
       /\ exc' = IF k \in {"fail", "partial"} THEN "RuntimeError" ELSE "none"
       /\ log' = Append(log, <<"urlretrieve", k>>)
  /\ pc' = "exittemp"
  /\ UNCHANGED <<os, download_url, download_path, extract_path, top, hist,
                 fs0, tmpMade>>

\* download_geckodriver: the with block is left, by return or by exception,
\* and the temporary directory is removed
ExitTemp ==
  /\ pc = "exittemp"
  /\ fs' = TempCleanup(fs)
  /\ Control(Finish("download_geckodriver", exc))
  /\ exc' = "none"
  /\ UNCHANGED <<os, download_url, download_path, extract_path, fs0, netCalls, tmpMade>>

ExtractFile ==
  /\ pc = "extract"
  /\ LET r == extract_file(fs, download_path, extract_path, os) IN
       /\ fs' = r.fs
       /\ extract_path' = r.ep
       /\ Control(Finish("extract_file", r.exc))
  /\ UNCHANGED <<os, download_url, download_path, exc, fs0, netCalls, tmpMade>>

MoveGeckodriver ==
  /\ pc = "move"
  /\ LET r == move_geckodriver(fs, extract_path, os) IN
       /\ fs' = r.fs
       /\ Control(Finish("move_geckodriver", r.exc))
  /\ UNCHANGED <<os, download_url, download_path, extract_path, exc, fs0,
                 netCalls, tmpMade>>

\* clean_up, called directly or as the last statement of install()'s try block
CleanUp ==
  /\ pc = "cleanup"
  /\ LET r == clean_up(fs, download_path, extract_path, os) IN
       /\ fs' = r.fs
       /\ Control(Finish("clean_up", r.exc))
  /\ UNCHANGED <<os, download_url, download_path, extract_path, exc, fs0,
                 netCalls, tmpMade>>

\* install()'s except block: clean_up, then install() returns; an exception
\* clean_up raises here leaves install()
Handler ==
  /\ pc = "handler"
  /\ LET r == clean_up(fs, download_path, extract_path, os) IN
       /\ fs' = r.fs
       /\ top' = "none"
       /\ pc' = "idle"
       /\ log' = Append(log, <<"clean_up", Outcome(r.exc)>>)
       /\ hist' = Append(hist, <<"install", Outcome(r.exc)>>)
  /\ UNCHANGED <<os, download_url, download_path, extract_path, exc, fs0,
                 netCalls, tmpMade>>

Next ==
  \/ \E m \in Methods : Call(m)
  \/ GetDownloadUrl
  \/ EnterTemp
  \/ Retrieve
  \/ ExitTemp
  \/ ExtractFile
  \/ MoveGeckodriver
  \/ CleanUp
  \/ Handler

Spec == Init /\ [][Next]_vars

SpecUnit == InitUnit /\ [][Next]_vars

(* ------------------------- reading the history ------------------------- *)

Steps == {"download_geckodriver", "extract_file", "move_geckodriver", "clean_up"}

\* the place of a step in install()'s try block
Ord(step) ==
  CASE step = "download_geckodriver" -> 1
    [] step = "extract_file" -> 2
    [] step = "move_geckodriver" -> 3
    [] step = "clean_up" -> 4

TargetName == Join(TargetDir, DriverName(os))
Supported == {"windows", "darwin", "linux"}

\* install() is running, or was the last call and has ended
InInstall == top = "install"
InstallEnded ==
  /\ top = "none"
  /\ Len(hist) > 0
  /\ hist[Len(hist)][1] = "install"
InstallResult == hist[Len(hist)][2]

\* the log of the current (or last) call holds entry e
Logged(e) == \E i \in 1..Len(log) : log[i] = e
\* entry e is logged before position j
LoggedBefore(e, j) == \E i \in 1..(j - 1) : log[i] = e
\* the step that is about to run inside install()
AboutToRun ==
  CASE pc = "extract" -> "extract_file"
    [] pc = "move" -> "move_geckodriver"
    [] pc = "cleanup" -> "clean_up"
    [] pc = "handler" -> "clean_up"
    [] OTHER -> "none"

(* ------------------------------- claims -------------------------------- *)

\* C1: whatever the steps of the pipeline do, install() returns normally to
\* its caller (no exception of a step leaves it), clean_up() has run at least
\* once in the run, and it has run after every step that raised.
C1_InstallCatchesAndCleansUp ==
  InstallEnded =>
    /\ InstallResult = "returned"
    /\ \E i \in 1..Len(log) : log[i][1] = "clean_up"
    /\ \A i \in 1..Len(log) :
         (log[i][1] \in Steps \ {"clean_up"} /\ log[i][2] # "returned")
           => \E j \in (i + 1)..Len(log) : log[j][1] = "clean_up"

\* C1 witness: an install() in which a step raised, clean_up ran and the call
\* returned.
C1_Witness ==
  /\ InstallEnded
  /\ InstallResult = "returned"
  /\ Logged(<<"extract_file", "ValueError">>)
  /\ log[Len(log)] = <<"clean_up", "returned">>

\* C2: on windows, when the download succeeded and delivered a zip archive
\* holding geckodriver.exe, install() ends with the driver at
\* target_dir/geckodriver.exe and without the staging directory.
C2_WindowsZipInstalled ==
  ( /\ InstallEnded
    /\ os = "windows"
    /\ fs0[Stage] = "none"
    /\ Logged(<<"urlretrieve", "zipwin">>)
    /\ Logged(<<"download_geckodriver", "returned">>) )
  => /\ fs[Join(TargetDir, GeckoExeName)] = "driver"
     /\ ~Exists(fs, Stage)

C4_DispatchOnNameEnding ==
  (pc = "extract" /\ download_path # None) =>
    LET r == extract_file(fs, download_path, extract_path, os) IN
    /\ EndsWith(download_path, ZipSuffix)
         => Branch(download_path) = "zip" /\ r.exc # "ValueError"
    /\ EndsWith(download_path, TarGzSuffix)
         => Branch(download_path) = "targz" /\ r.exc # "ValueError"
    /\ (~EndsWith(download_path, ZipSuffix) /\ ~EndsWith(download_path, TarGzSuffix))
         => r.exc = "ValueError" /\ r.fs = fs /\ r.ep = extract_path

\* C5: when install() has ended, neither the downloaded archive (download_path)
\* nor the staging directory exists, provided both were absent when it started.
C5_NothingLeftBehind ==
  ( /\ InstallEnded
    /\ ~Exists(fs0, Stage)
    /\ ~Exists(fs0, TmpFile) )
  => /\ download_path # None => ~Exists(fs, download_path)
     /\ ~Exists(fs, Stage)

\* C5 witness: an install() that started without archive and staging directory,
\* fetched the archive, and ended.
C5_Witness ==
  /\ InstallEnded
  /\ ~Exists(fs0, Stage)
  /\ \E k \in FileKinds : Logged(<<"urlretrieve", k>>)
  /\ download_path = TmpFile
  /\ ~Exists(fs, TmpFile)

\* C6 as stated (refuted): inside install() every step, clean_up included,
\* starts only after every earlier step has returned without raising.
C6_EveryStepAfterSuccess ==
  (InInstall \/ InstallEnded) =>
    /\ \A j \in 1..Len(log) : \A i \in 1..(j - 1) :
         (log[j][1] \in Steps /\ log[i][1] \in Steps) => log[i][2] = "returned"
    /\ (InInstall /\ AboutToRun # "none") =>
         \A i \in 1..Len(log) : log[i][1] \in Steps => log[i][2] = "returned"

\* C6 as amended: inside install() the steps run in the order
\* download_geckodriver, extract_file, move_geckodriver, clean_up and none but
\* clean_up runs twice; extract_file and move_geckodriver start only after every
\* earlier step has returned without raising; clean_up starts after the steps
\* that ran, also when the last of them raised; the success message comes only
\* after all four have returned.
C6_PipelineOrder ==
  (InInstall \/ InstallEnded) =>
    /\ \A j \in 1..Len(log) : \A i \in 1..(j - 1) :
         (log[j][1] \in Steps /\ log[i][1] \in Steps) =>
           \/ Ord(log[i][1]) < Ord(log[j][1])
           \/ log[i][1] = "clean_up" /\ log[j][1] = "clean_up"
    /\ \A j \in 1..Len(log) :
         log[j][1] \in {"extract_file", "move_geckodriver"} =>
           \A s \in Steps : Ord(s) < Ord(log[j][1]) => LoggedBefore(<<s, "returned">>, j)
    /\ (InInstall /\ AboutToRun \in {"extract_file", "move_geckodriver"}) =>
         /\ \A s \in Steps : Ord(s) < Ord(AboutToRun) => Logged(<<s, "returned">>)
         /\ \A i \in 1..Len(log) : log[i][1] \in Steps => log[i][2] = "returned"
    /\ (InInstall /\ AboutToRun = "clean_up") =>
         \A i \in 1..Len(log) : log[i][1] \in Steps => Ord(log[i][1]) < 4 \/ pc = "handler"
    /\ \A j \in 1..Len(log) :
         log[j] = <<"print", "success">> =>
           \A s \in Steps : LoggedBefore(<<s, "returned">>, j)

\* C6 witness: an install() whose download returned, whose extract_file then
\* ran and raised, and whose clean_up ran last.
C6_Witness ==
  /\ InstallEnded
  /\ Logged(<<"download_geckodriver", "returned">>)
  /\ Logged(<<"extract_file", "ValueError">>)
  /\ ~(\E i \in 1..Len(log) : log[i][1] = "move_geckodriver")
  /\ log[Len(log)] = <<"clean_up", "returned">>

\* C7: extract_file() called while no file exists at download_path raises
\* FileNotFoundError, whatever download_path is.
C7_MissingArchiveIsFileNotFound ==
  (pc = "extract" /\ download_path # None /\ ~Exists(fs, download_path)) =>
    extract_file(fs, download_path, extract_path, os).exc = "FileNotFoundError"

\* C8: on an OS identifier other than windows, darwin and linux the download
\* ends with OSError, urlretrieve is never reached, no temporary directory is
\* created, and download_url and download_path stay unset.
C8_UnsupportedPlatformNoNetwork ==
  os \notin Supported =>
    /\ netCalls = 0
    /\ tmpMade = 0
    /\ ~Exists(fs, TempDir)
    /\ download_url = NoUrl
    /\ download_path = None
    /\ pc \notin {"mktemp", "fetch", "exittemp"}
    /\ \A i \in 1..Len(log) :
         /\ log[i][1] # "urlretrieve"
         /\ log[i][1] = "download_geckodriver" => log[i][2] = "OSError"
    /\ \A i \in 1..Len(hist) :
         hist[i][1] = "download_geckodriver" => hist[i][2] = "OSError"

\* C8 witness: on an unsupported OS both download_geckodriver() and install()
\* have run, and the download ended with OSError.
C8_Witness ==
  /\ os = "freebsd"
  /\ InstallEnded
  /\ Logged(<<"download_geckodriver", "OSError">>)
  /\ \E i \in 1..Len(hist) : hist[i] = <<"download_geckodriver", "OSError">>

\* C9: clean_up() with download_path and extract_path unset changes nothing
\* and raises nothing; in every state a second clean_up() raises nothing and
\* leaves the filesystem as the first one left it.
C9_CleanUpIdempotent ==
  LET r1 == clean_up(fs, download_path, extract_path, os)
      r2 == clean_up(r1.fs, download_path, extract_path, os) IN
  /\ (download_path = None /\ extract_path = None)
       => r1.fs = fs /\ r1.exc = "none"
  /\ r2.exc = "none"
  /\ r2.fs = r1.fs
  /\ \A i \in 1..(Len(hist) - 1) :
       (hist[i][1] = "clean_up" /\ hist[i + 1][1] = "clean_up")
         => hist[i + 1][2] = "returned"

\* C9 witness: after a download has set download_path, clean_up() was called
\* twice in a row and both calls returned.
C9_Witness ==
  /\ top = "none"
  /\ download_path # None
  /\ Len(hist) >= 2
  /\ hist[Len(hist) - 1] = <<"clean_up", "returned">>
  /\ hist[Len(hist)] = <<"clean_up", "returned">>

\* C10: once download_geckodriver() has left its with block, by return or by
\* exception, no file exists at download_path; install() calls extract_file()
\* with a download_path that names no file.
C10_DownloadGoneAfterScope ==
  /\ (download_path # None /\ pc \notin {"fetch", "exittemp"})
       => ~Exists(fs, download_path)
  /\ (InInstall /\ pc = "extract")
       => download_path # None /\ ~Exists(fs, download_path)

\* C10 witness: install() is about to call extract_file() after a download
\* that fetched the archive, and the archive is gone.
C10_Witness ==
  /\ InInstall
  /\ pc = "extract"
  /\ \E k \in FileKinds : Logged(<<"urlretrieve", k>>)
  /\ download_path = TmpFile
  /\ ~Exists(fs, TmpFile)

====
